---- MODULE Spec2Model ----
(***************************************************************************)
(* The fraud-proof task orchestrator of snoopy: the task map shared by the *)
(* HTTP handlers and the single background loop (src/src/main.rs), and the *)
(* library functions the loop drives (src/src/lib.rs).                     *)
(*                                                                         *)
(* The analytics store, the chain, the snapshot server and the prover are  *)
(* external: what they answer is drawn from bounded sets at the moment the *)
(* loop calls them.                                                        *)
(***************************************************************************)
EXTENDS Integers, Sequences, FiniteSets, TLC

VARIABLES
    tasks,              \* InternalState.tasks : HashMap<Uuid, Task>
    pc,                 \* where the spawned loop of run_loop stands
    task,               \* run_loop: the clone of the Pending task found by the scan
    assignment_id_map,  \* run_loop: HashMap<String, String>
    eligible_queries,   \* run_loop: Vec<QueryExecutedRow>
    signatures,         \* run_loop: HashMap<String, (Vec<u8>, Vec<u8>)>
    sibling_queries,    \* run_loop: Vec<QueryExecutedRow>
    used_keys,          \* run_loop: HashSet<String> of worker ids
    proofs,             \* run_loop: Vec<PrivateProofData>
    row_idx,            \* run_loop: position of `for row in &eligible_queries`
    row_failures,       \* number of per-row errors met in this evidence assembly
    last_call,          \* the library call the loop made last, and what it returned
    started,            \* history: task id -> times the loop set it Running(None)
    prover_log,         \* history: task id -> the bundles handed to build_zk_proof, its result
    post_log,           \* history: task id -> what post_proof returned
    response,           \* what the handler that ran last answered
    lib_call,           \* a function of lib.rs called on its own: its arguments, what it returned
    lock,               \* who holds the Mutex of InternalState.tasks
    loop_at,            \* where the spawned loop stands between its locks and its awaits
    handler_at          \* where each request handler stands

vars == << tasks, pc, task, assignment_id_map, eligible_queries, signatures,
           sibling_queries, used_keys, proofs, row_idx, row_failures, last_call,
           started, prover_log, post_log, response, lib_call, lock, loop_at, handler_at >>

LockVars == << lock, loop_at, handler_at >>

(***************************************************************************)
(* Bounds of the model.                                                    *)
(***************************************************************************)
MaxTasks == 2
MaxRows == 6
MaxRowFailures == 1

(***************************************************************************)
(* Program constants.                                                      *)
(***************************************************************************)
NUMBER_OF_EVIDENCES_IN_ZK_PROOF == 5
ts_tolerance == 300
ts_search_range == 3600

(***************************************************************************)
(* Values.                                                                 *)
(***************************************************************************)
None == "None"
Some(s) == s

EmptyMap == [k \in {} |-> k]

TaskIds == 1 .. MaxTasks
\* ids a status query may ask for: the first task's and one no task ever has
QueriedIds == {1, MaxTasks + 1}
\* the bodies POST /tasks is sent: the query id of the first row with a timestamp
\* past both windows, the query id of the last row with a timestamp inside them
TaskDescriptions ==
    {[query_id |-> 1, ts |-> 5000], [query_id |-> MaxRows, ts |-> 100]}

NoTask == [id |-> 0, query_id |-> 0, ts |-> 0, status |-> "NotFound", comment |-> None]
NoCall == [fn |-> "none", result |-> "none", err |-> ""]
NoResponse == [kind |-> "none", request |-> 0, json |-> 0]
NoLibCall == [fn |-> "none", args |-> << >>, returned |-> FALSE, ret |-> << >>]

\* format!("{v:02x}") of one byte
HexDigits == << "0", "1", "2", "3", "4", "5", "6", "7",
                "8", "9", "a", "b", "c", "d", "e", "f" >>
Hex02(v) == HexDigits[(v \div 16) + 1] \o HexDigits[(v % 16) + 1]

\* res.iter().map(|v| format!("{v:02x}")).collect::<Vec<_>>().join("")
RECURSIVE HexJoin(_)
HexJoin(bytes) ==
    IF bytes = << >> THEN ""
    ELSE Hex02(Head(bytes)) \o HexJoin(Tail(bytes))

(***************************************************************************)
(* The task map.                                                           *)
(***************************************************************************)
\* HashMap::insert
MapInsert(m, k, v) == [x \in (DOMAIN m) \cup {k} |-> IF x = k THEN v ELSE m[x]]

\* set_task_status writing every task of the map, not only task_id
set_task_status_all(ts, task_id, status, comment) ==
    [id \in DOMAIN ts |-> [ts[id] EXCEPT !.status = status, !.comment = comment]]

\* fn set_task_status: task.status = status; task.comment = comment
set_task_status(ts, task_id, status, comment) ==
    [ts EXCEPT ![task_id] = [@ EXCEPT !.status = status, !.comment = comment]]

\* an id generator that hands out the same id again
new_v4_reused(ts) == 1

\* Uuid::new_v4(): an id no task has
new_v4(ts) == CHOOSE id \in TaskIds : id \notin DOMAIN ts /\ \A j \in TaskIds : j < id => j \in DOMAIN ts

\* the Task submit_task stores
NewTask(task_id, query_id, ts) ==
    [id |-> task_id, query_id |-> query_id, ts |-> ts, status |-> "Pending", comment |-> None]

\* get_task_status storing the record it answers for an unknown id
get_task_status_inserting(ts, task_id) ==
    LET json == IF task_id \in DOMAIN ts
                THEN ts[task_id]
                ELSE [id |-> task_id, query_id |-> 0, ts |-> 0,
                      status |-> "NotFound", comment |-> None]
    IN [tasks |-> MapInsert(ts, task_id, json), json |-> json]

\* fn get_task_status: the task map it leaves and the Task it answers; query id 0
\* is the empty string of Default::default()
get_task_status(ts, task_id) ==
    [tasks |-> ts,
     json |-> IF task_id \in DOMAIN ts
              THEN ts[task_id]
              ELSE [id |-> task_id, query_id |-> 0, ts |-> 0,
                    status |-> "NotFound", comment |-> None]]

\* fn get_all_tasks: the task map it leaves and the Vec<Task> it answers
\* (HashMap::values: in no particular order)
get_all_tasks(ts) ==
    [tasks |-> ts, json |-> {ts[id] : id \in DOMAIN ts}]

\* a scan that also stops at Failed tasks
PendingIds_retry(ts) == {id \in DOMAIN ts : ts[id].status \in {"Pending", "Failed"}}

\* the tasks the scan of run_loop stops at: value.status == TaskStatus::Pending
PendingIds(ts) == {id \in DOMAIN ts : ts[id].status = "Pending"}

(***************************************************************************)
(* Rows of the analytics store and what the external services answer.      *)
(***************************************************************************)
Hashes == {"H1", "H2"}

\* the dataset and the chunk the disputed query and its siblings asked for
RowDataset == "ds"
RowChunk == "c3"

\* a QueryExecutedRow of worker_query_logs, as far as discovery, resolution and
\* consensus read it; with `shared`, rows 1 and 2 are of one worker. The siblings have
\* one query hash and one block range: they ask for one chunk of one dataset.
Row(i, shared) ==
    [query_id |-> i,
     worker_id |-> IF shared /\ i = 2 THEN 1 ELSE i,
     dataset_id |-> RowDataset,
     chunk_id |-> RowChunk,
     client_timestamp |-> 1000 * i + 999]

\* a signature: who signed what. verify_signature of sqd_messages accepts a signature
\* exactly when it is the one of the declared signer over the message.
Sign(signer, message) == [signer |-> signer, message |-> message]

\* what a client signs of a Query sent to a worker
QueryMessage(query, worker_id) ==
    << query.query_id, query.dataset, query.chunk_id, query.timestamp_ms, worker_id >>

\* what a worker signs of a QueryFinished
ResultMessage(query_result) ==
    << query_result.query_id, query_result.result.data_hash, query_result.result.last_block >>

\* Query::verify_signature(client_id, worker_id)
VerifyQuery(query, client_id, worker_id) ==
    query.signature = Sign(client_id, QueryMessage(query, worker_id))

\* QueryFinished::verify_signature()
VerifyResult(query_result) ==
    query_result.worker_signature = Sign(query_result.worker_id, ResultMessage(query_result))

\* the last block every worker answered for the block range
LastBlock == 100

\* last_block: Option<u64>
NoBlock == << >>
SomeBlock(n) == << n >>

\* the columns of a row that only evidence assembly reads, drawn when the loop comes
\* to the row: signed by the client for this worker, signed by somebody else, signed
\* for another worker, or logged without last_block
RowDetails(row) ==
    LET query == [query_id |-> row.query_id, dataset |-> row.dataset_id,
                  chunk_id |-> row.chunk_id, timestamp_ms |-> row.client_timestamp]
        signed == Sign("client", QueryMessage(query, row.worker_id))
    IN {[client_id |-> "client", client_signature |-> signed, last_block |-> SomeBlock(LastBlock)],
        [client_id |-> "client", client_signature |-> Sign("mallory", signed.message),
         last_block |-> SomeBlock(LastBlock)],
        [client_id |-> "client", client_signature |-> Sign("client", QueryMessage(query, 0)),
         last_block |-> SomeBlock(LastBlock)],
        [client_id |-> "client", client_signature |-> signed, last_block |-> NoBlock]}

FullRow(row, details) ==
    [query_id |-> row.query_id,
     worker_id |-> row.worker_id,
     dataset_id |-> row.dataset_id,
     chunk_id |-> row.chunk_id,
     client_timestamp |-> row.client_timestamp,
     client_id |-> details.client_id,
     client_signature |-> details.client_signature,
     last_block |-> details.last_block]

\* what fetch_all of the sibling query may answer: rows n .. 1, the last one
\* possibly logged twice
FetchList(n, shared, dup) ==
    LET desc == [k \in 1 .. n |-> Row(n + 1 - k, shared)]
    IN IF dup /\ n > 0 THEN Append(desc, Row(1, shared)) ELSE desc

FetchedSiblings ==
    {FetchList(n, shared, dup) : n \in 0 .. MaxRows, shared \in BOOLEAN, dup \in BOOLEAN}

\* CommitmentHolder.get_id_by_timestamp: "" before the first commitment
FirstCommits == {0, 2}
get_id_by_timestamp(first_commit, seconds) ==
    IF seconds < first_commit THEN "" ELSE "asg"

\* a SignatureRow of portal_logs: the result hash and the signature `signer` gave it
SigRow(query_id, signer, hash) ==
    [query_id |-> query_id,
     worker_signature |-> Sign(signer, << query_id, hash, LastBlock >>),
     result_hash |-> hash]

SeqIds(rows) == {rows[k].query_id : k \in 1 .. Len(rows)}

\* records for the rows but those of `missing`: with hash H2 for the `outliers`, H1
\* for the others, signed by the row's worker but for the `forged`
SigRowsFor(rows, missing, outliers, forged) ==
    LET all == [k \in 1 .. Len(rows) |->
                   SigRow(rows[k].query_id,
                          IF rows[k].query_id \in forged THEN 0 ELSE rows[k].worker_id,
                          IF rows[k].query_id \in outliers THEN "H2" ELSE "H1")]
        Kept(r) == r.query_id \notin missing
    IN SelectSeq(all, Kept)

\* what fetch_all of the signature query may answer for the eligible rows
FetchedSignatures(rows, original_query_id) ==
    LET first == IF rows = << >> THEN {} ELSE {rows[1].query_id}
        last == IF rows = << >> THEN {} ELSE {rows[Len(rows)].query_id}
    IN {SigRowsFor(rows, missing, outliers, {}) :
            missing \in {{}, last, SeqIds(rows)},
            outliers \in {{}, {original_query_id}, last}}
       \cup {SigRowsFor(rows, {}, {}, first)}

SiblingErrors == {"RowNotFound", "BadResponse"}
ContractErrors == {"TransportError"}
SignatureErrors == {"BadResponse"}
ProverErrors == {"ProverFailed"}
PostErrors == {"Timeout"}
TxHashes == { << 10, 27 >>, << 255, 0 >> }

\* what a library call returned: Ok(..), Err(err), or it panicked
Ok(fn) == [fn |-> fn, result |-> "Ok", err |-> ""]
Err(fn, err) == [fn |-> fn, result |-> "Err", err |-> err]
Panicked(fn) == [fn |-> fn, result |-> "Panic", err |-> ""]

\* what populate_trie and trie.root_hash() may fail with
SnapshotErrors == {Err("populate_trie", "download failed"), Err("root_hash", "trie error")}

\* the per-row errors of evidence assembly
RowErrors ==
    SnapshotErrors
    \cup {Err("make_mpt_proof", err) : err \in {"Empty leaf in proof", "RlpError", "Wrong assignment"}}
    \cup {Err("make_proof_data", err) :
             err \in {"Query signature verification failed",
                      "Query Result signature verification failed"}}

(***************************************************************************)
(* src/src/lib.rs                                                          *)
(***************************************************************************)
\* the elements of a Vec
Elems(rows) == {rows[k] : k \in 1 .. Len(rows)}

\* slice::sort_by, a stable sort; the comparator is given as the function
\* less[<<a, b>>] = (compare(a, b) = Ordering::Less) on pairs of elements
RECURSIVE InsertSorted(_, _, _)
InsertSorted(sorted, x, less) ==
    IF sorted = << >> THEN << x >>
    ELSE IF less[<< x, Head(sorted) >>] THEN << x >> \o sorted
    ELSE << Head(sorted) >> \o InsertSorted(Tail(sorted), x, less)

RECURSIVE SortBy(_, _)
SortBy(rows, less) ==
    IF rows = << >> THEN << >>
    ELSE InsertSorted(SortBy(SubSeq(rows, 1, Len(rows) - 1), less), rows[Len(rows)], less)

\* Vec::dedup_by(|a, b| a.query_id == b.query_id): drops a row equal to the one kept before it
RECURSIVE DedupByQueryId(_)
DedupByQueryId(rows) ==
    IF Len(rows) <= 1 THEN rows
    ELSE LET front == DedupByQueryId(SubSeq(rows, 1, Len(rows) - 1))
             x == rows[Len(rows)]
         IN IF front[Len(front)].query_id = x.query_id THEN front ELSE Append(front, x)

\* get_siblings_queries without its sort
get_siblings_queries_unsorted(fetched) == DedupByQueryId(fetched)

\* get_siblings_queries, after both fetches: sort by query id, dedup
get_siblings_queries(fetched) ==
    LET ByQueryId == [p \in Elems(fetched) \X Elems(fetched) |-> p[1].query_id < p[2].query_id]
    IN DedupByQueryId(SortBy(fetched, ByQueryId))

\* a u64 is its four 16-bit limbs, the lowest first
Limb == 65536
U64(n) == << n % Limb, n \div Limb, 0, 0 >>
U64Max == << Limb - 1, Limb - 1, Limb - 1, Limb - 1 >>

\* a + b on u64: the wrapped sum, and whether it overflowed
AddU64(a, b) ==
    LET s1 == a[1] + b[1]
        s2 == a[2] + b[2] + (s1 \div Limb)
        s3 == a[3] + b[3] + (s2 \div Limb)
        s4 == a[4] + b[4] + (s3 \div Limb)
    IN [value |-> << s1 % Limb, s2 % Limb, s3 % Limb, s4 % Limb >>,
        overflow |-> s4 >= Limb]

\* a - b on u64: the wrapped difference, and whether it underflowed
SubU64(a, b) ==
    LET Borrow(d) == IF d < 0 THEN 1 ELSE 0
        d1 == a[1] - b[1]
        d2 == a[2] - b[2] - Borrow(d1)
        d3 == a[3] - b[3] - Borrow(d2)
        d4 == a[4] - b[4] - Borrow(d3)
    IN [value |-> << (d1 + Limb) % Limb, (d2 + Limb) % Limb,
                     (d3 + Limb) % Limb, (d4 + Limb) % Limb >>,
        overflow |-> d4 < 0]

\* a < b on u64
LessU64(a, b) ==
    \E k \in 1 .. 4 : a[k] < b[k] /\ \A j \in k + 1 .. 4 : a[j] = b[j]

\* `as u32`: the two low limbs, the high ones zero
AsU32(a) == << a[1], a[2], 0, 0 >>

\* lines 191-192: (ts - ts_tolerance) as u32, (ts + ts_tolerance) as u32
ToleranceWindow(ts) ==
    LET lo == SubU64(ts, U64(ts_tolerance))
        hi == AddU64(ts, U64(ts_tolerance))
    IN [lo |-> AsU32(lo.value), hi |-> AsU32(hi.value),
        overflow |-> lo.overflow \/ hi.overflow,
        narrowed |-> AsU32(lo.value) # lo.value \/ AsU32(hi.value) # hi.value]

\* lines 208-209 and 281-282: ts - ts_search_range, ts + ts_search_range
SearchWindow(ts) ==
    LET lo == SubU64(ts, U64(ts_search_range))
        hi == AddU64(ts, U64(ts_search_range))
    IN [lo |-> lo.value, hi |-> hi.value,
        overflow |-> lo.overflow \/ hi.overflow,
        narrowed |-> FALSE]

\* a where clause keeping the timestamps from lo to hi, both included
InWindow_closed(window, timestamp) ==
    /\ ~LessU64(timestamp, window.lo)
    /\ ~LessU64(window.hi, timestamp)

\* where worker_timestamp > ? AND worker_timestamp < ?
InWindow(window, timestamp) ==
    /\ LessU64(window.lo, timestamp)
    /\ LessU64(timestamp, window.hi)

\* lines 189-195: the lookup of the original query in a store of rows
\* [query_id, worker_timestamp]. With overflow checks (a debug build) an overflowing
\* bound panics, without them (a release build) it wraps. fetch_one answers the first
\* row the where clause keeps, RowNotFound when it keeps none.
original_query(store, query_id, ts, overflow_checks) ==
    LET window == ToleranceWindow(ts)
        Matches(row) == InWindow(window, row.worker_timestamp) /\ row.query_id = query_id
        matched == SelectSeq(store, Matches)
    IN IF overflow_checks /\ window.overflow
       THEN [result |-> "Panic", err |-> "", row |-> << >>]
       ELSE IF matched = << >>
       THEN [result |-> "Err", err |-> "RowNotFound", row |-> << >>]
       ELSE [result |-> "Ok", err |-> "", row |-> << matched[1] >>]

\* get_siblings_queries evaluates ts - ts_tolerance, ts + ts_tolerance,
\* ts - ts_search_range and ts + ts_search_range on u64
WindowUnderflows(ts) == ToleranceWindow(U64(ts)).overflow \/ SearchWindow(U64(ts)).overflow

\* get_assignment_id_map asking the contract about the client timestamp as it is
RECURSIVE get_assignment_id_map_millis(_, _)
get_assignment_id_map_millis(rows, first_commit) ==
    IF rows = << >> THEN EmptyMap
    ELSE LET front == get_assignment_id_map_millis(SubSeq(rows, 1, Len(rows) - 1), first_commit)
             row == rows[Len(rows)]
             res == get_id_by_timestamp(first_commit, row.client_timestamp)
         IN IF res # "" THEN MapInsert(front, row.query_id, res) ELSE front

\* get_assignment_id_map: one contract call per sibling, empty answers dropped
RECURSIVE get_assignment_id_map(_, _)
get_assignment_id_map(rows, first_commit) ==
    IF rows = << >> THEN EmptyMap
    ELSE LET front == get_assignment_id_map(SubSeq(rows, 1, Len(rows) - 1), first_commit)
             row == rows[Len(rows)]
             res == get_id_by_timestamp(first_commit, row.client_timestamp \div 1000)
         IN IF res # "" THEN MapInsert(front, row.query_id, res) ELSE front

\* the comparator with the timestamps compared the other way round
EligibleLess_oldestFirst(a, b, query_id) ==
    IF a.query_id = query_id THEN TRUE
    ELSE IF b.query_id = query_id THEN FALSE
    ELSE a.client_timestamp < b.client_timestamp

\* the comparator of filter_eligible_queries: Ordering::Less
EligibleLess(a, b, query_id) ==
    IF a.query_id = query_id THEN TRUE
    ELSE IF b.query_id = query_id THEN FALSE
    ELSE b.client_timestamp < a.client_timestamp

filter_eligible_queries(rows, id_map, query_id) ==
    LET Keep(row) == row.query_id \in DOMAIN id_map
        Less == [p \in Elems(rows) \X Elems(rows) |-> EligibleLess(p[1], p[2], query_id)]
    IN SortBy(SelectSeq(rows, Keep), Less)

\* result_count of get_signatures
Tally(sigs, hash) == Cardinality({k \in 1 .. Len(sigs) : sigs[k].result_hash = hash})

\* a call of get_signatures, with the number of records its fetch_all answered and
\* their result_count
Fetched(call, sigs) ==
    [fn |-> call.fn, result |-> call.result, err |-> call.err,
     fetched |-> Len(sigs), tally |-> [h \in Hashes |-> Tally(sigs, h)]]

\* a hash that needs two records to be the plurality
Pluralities_needsTwo(sigs) ==
    {h \in Hashes : Tally(sigs, h) > 1 /\ \A g \in Hashes : Tally(sigs, g) <= Tally(sigs, h)}

\* any hash with a record, whatever its tally
Pluralities_anyHash(sigs) == {h \in Hashes : Tally(sigs, h) > 0}

\* the hashes max_by_key may return: the HashMap is iterated in no particular order
Pluralities(sigs) ==
    {h \in Hashes : Tally(sigs, h) > 0 /\ \A g \in Hashes : Tally(sigs, g) <= Tally(sigs, h)}

\* the filter keeping the records of the plurality hash only
RECURSIVE CollectSignatures_pluralityOnly(_, _, _)
CollectSignatures_pluralityOnly(sigs, plurality, original_query_id) ==
    IF sigs = << >> THEN EmptyMap
    ELSE LET front == CollectSignatures_pluralityOnly(SubSeq(sigs, 1, Len(sigs) - 1),
                                                      plurality, original_query_id)
             row == sigs[Len(sigs)]
         IN IF row.result_hash = plurality
            THEN MapInsert(front, row.query_id,
                           [result_hash |-> row.result_hash,
                            worker_signature |-> row.worker_signature])
            ELSE front

\* .filter(..).map(..).collect::<HashMap<..>>(): a later record of a query id replaces an earlier
RECURSIVE CollectSignatures(_, _, _)
CollectSignatures(sigs, plurality, original_query_id) ==
    IF sigs = << >> THEN EmptyMap
    ELSE LET front == CollectSignatures(SubSeq(sigs, 1, Len(sigs) - 1), plurality, original_query_id)
             row == sigs[Len(sigs)]
         IN IF row.result_hash = plurality \/ row.query_id = original_query_id
            THEN MapInsert(front, row.query_id,
                           [result_hash |-> row.result_hash,
                            worker_signature |-> row.worker_signature])
            ELSE front

\* get_signatures, after the fetch: the maps it may return; none is "Plurality not found"
get_signatures(sigs, original_query_id) ==
    {CollectSignatures(sigs, p, original_query_id) : p \in Pluralities(sigs)}

ProofOk(proof) == [result |-> "Ok", err |-> "", proof |-> proof]
ProofErr(err) == [result |-> "Err", err |-> err, proof |-> << >>]
ProofPanic == [result |-> "Panic", err |-> "", proof |-> << >>]

\* the Query, QueryFinished and PrivateProofData make_proof_data builds
QueryOf(row) ==
    [query_id |-> row.query_id,
     dataset |-> row.dataset_id,
     chunk_id |-> row.chunk_id,
     timestamp_ms |-> row.client_timestamp,
     signature |-> row.client_signature]

QueryFinishedOf(row, result_hash, worker_signature) ==
    [query_id |-> row.query_id,
     result |-> [data_hash |-> result_hash, last_block |-> row.last_block[1]],
     worker_id |-> row.worker_id,
     worker_signature |-> worker_signature]

PrivateProofData(row, result_hash, worker_signature, tree_root, mpt_proof) ==
    [query |-> QueryOf(row),
     query_result |-> QueryFinishedOf(row, result_hash, worker_signature),
     mpt_proof |-> mpt_proof,
     worker_id |-> row.worker_id,
     client_id |-> row.client_id,
     tree_root |-> tree_root]

\* make_proof_data: the query signature check, row.last_block.unwrap(), the result
\* signature check
make_proof_data(row, result_hash, worker_signature, tree_root, mpt_proof) ==
    IF ~VerifyQuery(QueryOf(row), row.client_id, row.worker_id)
    THEN ProofErr("Query signature verification failed")
    ELSE IF row.last_block = NoBlock THEN ProofPanic
    ELSE IF ~VerifyResult(QueryFinishedOf(row, result_hash, worker_signature))
    THEN ProofErr("Query Result signature verification failed")
    ELSE ProofOk(PrivateProofData(row, result_hash, worker_signature, tree_root, mpt_proof))

(***************************************************************************)
(* The assignment trie. A key of the trie is its nibbles, a trie is the    *)
(* function from the keys inserted to their values; the nodes of the       *)
(* Merkle-Patricia trie over these keys are derived from it: a leaf where  *)
(* one key is left, an extension over the nibbles all keys below share and *)
(* a branch where they part.                                               *)
(***************************************************************************)
\* let mut bytes = [0u8; 32]
KeyBytes == 32
\* &bytes[0..8]
LookupBytes == 8

Datasets == {"ds"}
Chunks == {"c1", "c2", "c3", "c4"}

\* format!("{prefix}|{id}")
ChunkKey(dataset_id, chunk_id) == dataset_id \o "|" \o chunk_id

\* Keccak::v256 of the keys above, as nibbles. The digests of c1 and c2 agree on their
\* first 8 bytes (there are more keys than 8-byte prefixes, and the ids are free text),
\* the digest of c3 parts from them in the last nibble of the 8th byte, the digest of
\* c4 in the first nibble.
KeccakOnes ==
    [key \in {ChunkKey(d, c) : d \in Datasets, c \in Chunks} |->
        CASE key = "ds|c1" -> {}
          [] key = "ds|c2" -> {2 * LookupBytes + 1}
          [] key = "ds|c3" -> {2 * LookupBytes}
          [] key = "ds|c4" -> {1}]
KeccakTable ==
    [key \in DOMAIN KeccakOnes |->
        [i \in 1 .. 2 * KeyBytes |-> IF i \in KeccakOnes[key] THEN 1 ELSE 0]]
Keccak(key) == KeccakTable[key]

\* an Assignment: chunk id -> the worker ids of chunk.worker_indexes(), as listed
WorkerLists == { << 1 >>, << 2, 1 >>, << 2 >> }
Snapshots == UNION {[cs -> WorkerLists] : cs \in SUBSET Chunks}

\* workers.sort()
SortWorkers(workers) ==
    SortBy(workers, [p \in Elems(workers) \X Elems(workers) |-> p[1] < p[2]])

\* populate_trie, once the snapshot is read: trie.insert(&bytes, val) for every chunk
populate_trie(dataset_id, snapshot) ==
    LET ChunkOf(key) == CHOOSE c \in DOMAIN snapshot : Keccak(ChunkKey(dataset_id, c)) = key
    IN [key \in {Keccak(ChunkKey(dataset_id, c)) : c \in DOMAIN snapshot} |->
           SortWorkers(snapshot[ChunkOf(key)])]

\* how many nibbles all of `keys` share from the start
SharedNibbles(keys) ==
    LET apart == {i \in 1 .. 2 * KeyBytes : \E a, b \in keys : a[i] # b[i]}
    IN IF apart = {} THEN 2 * KeyBytes
       ELSE (CHOOSE i \in apart : \A j \in apart : i <= j) - 1

\* EthTrie::get_proof after root_hash() committed the trie: the nodes from the node
\* over `keys` at depth d down to the node where the walk along `path` ends. A leaf
\* ends the walk without its key being compared; so does a branch when the path is
\* used up or has no child for the next nibble, and an extension the path leaves.
RECURSIVE get_path_at(_, _, _, _)
get_path_at(trie, keys, path, d) ==
    IF keys = {} THEN << >>
    ELSE IF Cardinality(keys) = 1
    THEN LET key == CHOOSE k \in keys : TRUE
         IN << [kind |-> "leaf", children |-> {}, key |-> key, value |-> trie[key]] >>
    ELSE LET c == SharedNibbles(keys)
             key == CHOOSE k \in keys : TRUE
             extension == IF c > d
                          THEN << [kind |-> "extension", children |-> {}, key |-> << >>,
                                    value |-> << >>] >>
                          ELSE << >>
             branch == [kind |-> "branch", children |-> {k[c + 1] : k \in keys},
                        key |-> << >>, value |-> << >>]
         IN IF c > d /\ ~(c <= Len(path) /\ \A i \in d + 1 .. c : path[i] = key[i])
            THEN extension
            ELSE IF c >= Len(path)
            THEN extension \o << branch >>
            ELSE extension \o << branch >>
                 \o get_path_at(trie, {k \in keys : k[c + 1] = path[c + 1]}, path, c + 1)

get_proof(trie, path) == get_path_at(trie, DOMAIN trie, path, 0)

MptOk(mpt_proof) == [result |-> "Ok", err |-> "", proof |-> mpt_proof]
MptErr(err) == [result |-> "Err", err |-> err, proof |-> << >>]

\* make_mpt_proof without its check of the worker
make_mpt_proof_anyWorker(trie, dataset_id, chunk_id, worker_id) ==
    LET bytes == Keccak(ChunkKey(dataset_id, chunk_id))
        mpt_proof == get_proof(trie, SubSeq(bytes, 1, 2 * LookupBytes))
    IN IF mpt_proof = << >> THEN MptErr("Empty leaf in proof") ELSE MptOk(mpt_proof)

\* make_mpt_proof. rlp_leaf.val_at(1) is the value of a leaf; of a branch it is the
\* child of nibble 1, the empty string or a hash that is no String; of an extension
\* it is the hash of its child.
make_mpt_proof(trie, dataset_id, chunk_id, worker_id) ==
    LET bytes == Keccak(ChunkKey(dataset_id, chunk_id))
        trie_key == SubSeq(bytes, 1, 2 * LookupBytes)
        mpt_proof == get_proof(trie, trie_key)
        leaf == mpt_proof[Len(mpt_proof)]
    IN IF mpt_proof = << >> THEN MptErr("Empty leaf in proof")
       ELSE IF leaf.kind = "leaf"
       THEN IF worker_id \in Elems(leaf.value) THEN MptOk(mpt_proof)
            ELSE MptErr("Wrong assignment")
       ELSE IF leaf.kind = "extension" \/ 1 \in leaf.children THEN MptErr("RlpError")
       ELSE MptErr("Wrong assignment")

\* trie.root_hash(): a digest of what the trie holds
root_hash(trie) ==
    {<< CHOOSE key \in DOMAIN KeccakOnes : Keccak(key) = k, trie[k] >> : k \in DOMAIN trie}

\* the snapshot the assignment url of a row may hold: the row's worker assigned to the
\* row's chunk; the row's chunk assigned to another worker and the row's worker to
\* another chunk; the row's chunk not in the snapshot and the row's worker assigned to
\* another chunk
SnapshotKinds == {"assigned", "unassigned", "absent"}
\* the kinds drawn for a row: the snapshot without the row's chunk is drawn for the
\* oldest query only, which bounds the variety of the bundles of a task
RowSnapshotKinds(row) ==
    IF row.query_id = 1 THEN SnapshotKinds ELSE SnapshotKinds \ {"absent"}
RowSnapshot(worker_id, kind) ==
    CASE kind = "assigned" ->
            [c \in {RowChunk, "c4"} |->
                IF c = RowChunk THEN << MaxRows + 1, worker_id >> ELSE << MaxRows + 1 >>]
      [] kind = "unassigned" ->
            [c \in {RowChunk, "c4"} |->
                IF c = RowChunk THEN << MaxRows + 1 >> ELSE << worker_id >>]
      [] kind = "absent" ->
            [c \in {"c1", "c4"} |->
                IF c = "c1" THEN << MaxRows + 1, worker_id >> ELSE << MaxRows + 1 >>]

\* lines 331-355 for the row of a worker, over the snapshots it may meet: populate_trie,
\* trie.root_hash() and make_mpt_proof (evaluated once for each worker and snapshot)
TrieSteps ==
    [worker_id \in 1 .. MaxRows |->
        [kind \in SnapshotKinds |->
            LET trie == populate_trie(RowDataset, RowSnapshot(worker_id, kind))
            IN [tree_root |-> root_hash(trie),
                mpt |-> make_mpt_proof(trie, RowDataset, RowChunk, worker_id)]]]

(***************************************************************************)
(* src/src/main.rs: the state after main() built InternalState and called  *)
(* run_loop.                                                               *)
(***************************************************************************)
(* The Mutex of the task map: who takes it, and where it is given back.    *)
(***************************************************************************)
\* the threads serving requests at one time
Handlers == {"h1", "h2"}

\* the awaited calls of one iteration of the loop, in the order of run_loop
Calls == << "get_siblings_queries", "get_assignment_id_map", "get_signatures",
            "populate_trie", "build_zk_proof", "post_proof" >>

\* a position of the loop: before the lock of the scan, in the scan, in its sleep,
\* in the call Calls[call], before the lock of the set_task_status that follows
\* Calls[call] (call 0: line 205), or inside that set_task_status
LoopAt(op, call, failed) == [op |-> op, call |-> call, failed |-> failed]

\* the loop is suspended in an await
Suspended == loop_at.op \in {"sleep", "call"}

LockIdle ==
    /\ lock = "free"
    /\ loop_at = LoopAt("lock_scan", 0, FALSE)
    /\ handler_at = [h \in Handlers |-> "idle"]

(***************************************************************************)
Init ==
    /\ tasks = EmptyMap
    /\ pc = "scan"
    /\ task = NoTask
    /\ sibling_queries = << >>
    /\ assignment_id_map = EmptyMap
    /\ eligible_queries = << >>
    /\ signatures = EmptyMap
    /\ used_keys = {}
    /\ proofs = << >>
    /\ row_idx = 0
    /\ row_failures = 0
    /\ last_call = NoCall
    /\ started = [id \in TaskIds |-> 0]
    /\ prover_log = EmptyMap
    /\ post_log = EmptyMap
    /\ response = NoResponse
    /\ lib_call = NoLibCall
    /\ LockIdle

LoopLocals == << task, sibling_queries, assignment_id_map, eligible_queries, signatures,
                 used_keys, proofs, row_idx, row_failures >>
LoopState == << pc, LoopLocals, last_call, started, prover_log, post_log >>

(***************************************************************************)
(* The handlers. Each runs under the lock of the task map, start to end.   *)
(***************************************************************************)
\* POST /tasks
submit_task(query_id, ts) ==
    /\ Cardinality(DOMAIN tasks) < MaxTasks
    /\ LET task_id == new_v4(tasks)
       IN /\ tasks' = MapInsert(tasks, task_id, NewTask(task_id, query_id, ts))
          /\ response' = [kind |-> "submit_task",
                           request |-> [query_id |-> query_id, ts |-> ts],
                           json |-> task_id]
    /\ UNCHANGED << LoopState, lib_call, LockVars >>

\* GET /tasks/<task_id>, for a task_id that parses as a Uuid
GetTaskStatus(task_id) ==
    /\ tasks' = get_task_status(tasks, task_id).tasks
    /\ response' = [kind |-> "get_task_status", request |-> task_id,
                    json |-> get_task_status(tasks, task_id).json]
    /\ UNCHANGED << LoopState, lib_call, LockVars >>

\* GET /tasks
GetAllTasks ==
    /\ tasks' = get_all_tasks(tasks).tasks
    /\ response' = [kind |-> "get_all_tasks", request |-> 0,
                    json |-> get_all_tasks(tasks).json]
    /\ UNCHANGED << LoopState, lib_call, LockVars >>

(***************************************************************************)
(* The loop of run_loop. One action is one library call, awaited, and the  *)
(* set_task_status that follows it; the lock is taken inside the scan and  *)
(* inside set_task_status only.                                            *)
(***************************************************************************)
\* `continue`: the locals of the iteration are dropped, the loop scans again
Continue ==
    /\ pc' = "scan"
    /\ task' = NoTask
    /\ sibling_queries' = << >>
    /\ assignment_id_map' = EmptyMap
    /\ eligible_queries' = << >>
    /\ signatures' = EmptyMap
    /\ used_keys' = {}
    /\ proofs' = << >>
    /\ row_idx' = 0
    /\ row_failures' = 0

\* a panic inside the spawned future ends the loop; the task map stays as it is
Panic(fn) ==
    /\ last_call' = Panicked(fn)
    /\ pc' = "crashed"
    /\ task' = NoTask
    /\ sibling_queries' = << >>
    /\ assignment_id_map' = EmptyMap
    /\ eligible_queries' = << >>
    /\ signatures' = EmptyMap
    /\ used_keys' = {}
    /\ proofs' = << >>
    /\ row_idx' = 0
    /\ row_failures' = 0
    /\ tasks' = tasks

\* set_task_status(.., TaskStatus::Failed, Some(comment)); continue
FailTask(comment) ==
    /\ tasks' = set_task_status(tasks, task.id, "Failed", Some(comment))
    /\ Continue

\* set_task_status(.., TaskStatus::Running, comment) between two steps
Progress(comment) == tasks' = set_task_status(tasks, task.id, "Running", comment)

\* lines 183-201: the scan for a Pending task
Scan ==
    /\ pc = "scan"
    /\ IF PendingIds(tasks) = {}
       THEN pc' = "sleep" /\ task' = NoTask
       ELSE \E id \in PendingIds(tasks) : task' = tasks[id] /\ pc' = "picked"
    /\ last_call' = NoCall
    /\ response' = NoResponse
    /\ UNCHANGED << lib_call, LockVars >>
    /\ UNCHANGED << tasks, sibling_queries, assignment_id_map, eligible_queries, signatures,
                    used_keys, proofs, row_idx, row_failures, started, prover_log, post_log >>

\* sleep(Duration::from_millis(100)).await; continue
Wake ==
    /\ pc = "sleep"
    /\ pc' = "scan"
    /\ response' = NoResponse
    /\ UNCHANGED << lib_call, LockVars >>
    /\ UNCHANGED << tasks, LoopLocals, last_call, started, prover_log, post_log >>

\* line 205
MarkRunning(ts, task_id) == set_task_status(ts, task_id, "Running", None)

SetRunning ==
    /\ pc = "picked"
    /\ tasks' = MarkRunning(tasks, task.id)
    /\ started' = [started EXCEPT ![task.id] = @ + 1]
    /\ pc' = "siblings"
    /\ response' = NoResponse
    /\ UNCHANGED << lib_call, LockVars >>
    /\ UNCHANGED << LoopLocals, last_call, prover_log, post_log >>

\* the error arm without its set_task_status
SiblingsFailed_silent(err) == tasks' = tasks /\ Continue

\* lines 234-242
SiblingsFailed(err) == FailTask("Got " \o err \o " while searching for siblings")

\* lines 229-249
GetSiblings ==
    /\ pc = "siblings"
    /\ response' = NoResponse
    /\ UNCHANGED << lib_call, LockVars >>
    /\ UNCHANGED << started, prover_log, post_log >>
    /\ \/ /\ WindowUnderflows(task.ts)
          /\ Panic("get_siblings_queries")
       \/ \E err \in SiblingErrors :
             /\ last_call' = Err("get_siblings_queries", err)
             /\ SiblingsFailed(err)
       \/ \E fetched \in FetchedSiblings :
             /\ last_call' = Ok("get_siblings_queries")
             /\ sibling_queries' = get_siblings_queries(fetched)
             /\ Progress(Some("Got siblings"))
             /\ pc' = "assignment"
             /\ UNCHANGED << task, assignment_id_map, eligible_queries, signatures,
                             used_keys, proofs, row_idx, row_failures >>

\* the error arm going on with an empty map
ContractFailed_goesOn(err) ==
    /\ Progress(Some("Got " \o err \o " while quering contract"))
    /\ assignment_id_map' = EmptyMap
    /\ pc' = "signatures"
    /\ UNCHANGED << task, sibling_queries, eligible_queries, signatures,
                    used_keys, proofs, row_idx, row_failures >>

\* lines 254-262
ContractFailed(err) == FailTask("Got " \o err \o " while quering contract")

\* lines 251-269
GetAssignmentIdMap ==
    /\ pc = "assignment"
    /\ response' = NoResponse
    /\ UNCHANGED << lib_call, LockVars >>
    /\ UNCHANGED << started, prover_log, post_log >>
    /\ \/ \E err \in ContractErrors :
             /\ last_call' = Err("get_assignment_id_map", err)
             /\ ContractFailed(err)
       \/ \E first_commit \in FirstCommits :
             /\ last_call' = Ok("get_assignment_id_map")
             /\ assignment_id_map' = get_assignment_id_map(sibling_queries, first_commit)
             /\ Progress(Some("Got assignment id map"))
             /\ pc' = "signatures"
             /\ UNCHANGED << task, sibling_queries, eligible_queries, signatures,
                             used_keys, proofs, row_idx, row_failures >>

\* lines 279-287
SignaturesFailed(err) == FailTask("Got " \o err \o " while getting signatures")

\* lines 271-295
GetSignatures ==
    /\ pc = "signatures"
    /\ response' = NoResponse
    /\ UNCHANGED << lib_call, LockVars >>
    /\ UNCHANGED << started, prover_log, post_log >>
    /\ LET eligible == filter_eligible_queries(sibling_queries, assignment_id_map, task.query_id)
       IN \/ \E err \in SignatureErrors :
                /\ last_call' = Err("get_signatures", err)
                /\ SignaturesFailed(err)
          \/ \E fetched \in FetchedSignatures(eligible, task.query_id) :
                /\ get_signatures(fetched, task.query_id) = {}
                /\ last_call' = Fetched(Err("get_signatures", "Plurality not found"), fetched)
                /\ SignaturesFailed("Plurality not found")
          \/ \E fetched \in FetchedSignatures(eligible, task.query_id) :
                \E map \in get_signatures(fetched, task.query_id) :
                   /\ last_call' = Fetched(Ok("get_signatures"), fetched)
                   /\ eligible_queries' = eligible
                   /\ signatures' = map
                   /\ Progress(Some("Got signatures"))
                   /\ pc' = "quorum"
                   /\ UNCHANGED << task, sibling_queries, assignment_id_map,
                                   used_keys, proofs, row_idx, row_failures >>

\* the gate with && for ||
NotEnoughEvidence_both(eligible, sigs) ==
    /\ Len(eligible) < NUMBER_OF_EVIDENCES_IN_ZK_PROOF
    /\ Cardinality(DOMAIN sigs) < NUMBER_OF_EVIDENCES_IN_ZK_PROOF

\* lines 297-298
NotEnoughEvidence(eligible, sigs) ==
    \/ Len(eligible) < NUMBER_OF_EVIDENCES_IN_ZK_PROOF
    \/ Cardinality(DOMAIN sigs) < NUMBER_OF_EVIDENCES_IN_ZK_PROOF

\* lines 297-310
QuorumGate ==
    /\ pc = "quorum"
    /\ response' = NoResponse
    /\ UNCHANGED << lib_call, LockVars >>
    /\ UNCHANGED << last_call, started, prover_log, post_log >>
    /\ \/ /\ NotEnoughEvidence(eligible_queries, signatures)
          /\ FailTask("Not enough evidence to create fraud proof")
       \/ /\ ~NotEnoughEvidence(eligible_queries, signatures)
          /\ used_keys' = {}
          /\ proofs' = << >>
          /\ row_idx' = 1
          /\ pc' = "rows"
          /\ UNCHANGED << tasks, task, sibling_queries, assignment_id_map, eligible_queries,
                          signatures, row_failures >>

\* a loop that breaks one bundle later
RowsDone_oneMore ==
    \/ row_idx > Len(eligible_queries)
    \/ Len(proofs) > NUMBER_OF_EVIDENCES_IN_ZK_PROOF

\* lines 311-314: the for loop is over, or breaks
RowsDone ==
    \/ row_idx > Len(eligible_queries)
    \/ Len(proofs) >= NUMBER_OF_EVIDENCES_IN_ZK_PROOF

\* the `continue`s without the one for a worker already used
RowSkipped_anyWorker(row) ==
    \/ row.query_id \notin DOMAIN signatures
    \/ row.query_id \notin DOMAIN assignment_id_map

\* lines 315-330: the `continue`s before any work is done for the row
RowSkipped(row) ==
    \/ row.worker_id \in used_keys
    \/ row.query_id \notin DOMAIN signatures
    \/ row.query_id \notin DOMAIN assignment_id_map

\* a per-row error treated like a step error
RowFailed_fatal == FailTask("Failed to build evidence")

\* lines 336-339, 343-346, 360-363, 370-373: error!(..); continue
RowFailed ==
    /\ row_idx' = row_idx + 1
    /\ row_failures' = row_failures + 1
    /\ UNCHANGED << tasks, pc, task, sibling_queries, assignment_id_map, eligible_queries,
                    signatures, used_keys, proofs >>

\* the bundle put in front of the list
RowSucceeded_prepends(row, proof) ==
    /\ used_keys' = used_keys \cup {row.worker_id}
    /\ proofs' = << proof >> \o proofs
    /\ Progress(Some("Got proofs " \o ToString(Len(proofs) + 1) \o "/"
                     \o ToString(NUMBER_OF_EVIDENCES_IN_ZK_PROOF)))
    /\ row_idx' = row_idx + 1
    /\ UNCHANGED << pc, task, sibling_queries, assignment_id_map, eligible_queries,
                    signatures, row_failures >>

\* lines 376-387
RowSucceeded(row, proof) ==
    /\ used_keys' = used_keys \cup {row.worker_id}
    /\ proofs' = Append(proofs, proof)
    /\ Progress(Some("Got proofs " \o ToString(Len(proofs) + 1) \o "/"
                     \o ToString(NUMBER_OF_EVIDENCES_IN_ZK_PROOF)))
    /\ row_idx' = row_idx + 1
    /\ UNCHANGED << pc, task, sibling_queries, assignment_id_map, eligible_queries,
                    signatures, row_failures >>

\* lines 331-374: what the steps for one row come to, given the snapshot behind its
\* assignment url and the columns of the row
RowOutcome(row, kind, details) ==
    LET full == FullRow(row, details)
        tree_root == TrieSteps[row.worker_id][kind].tree_root
        mpt == TrieSteps[row.worker_id][kind].mpt
        sig == signatures[row.query_id]
        data == make_proof_data(full, sig.result_hash, sig.worker_signature,
                                tree_root, mpt.proof)
    IN IF mpt.result = "Err"
       THEN [call |-> Err("make_mpt_proof", mpt.err), proof |-> << >>]
       ELSE IF data.result = "Panic"
       THEN [call |-> Panicked("make_proof_data"), proof |-> << >>]
       ELSE IF data.result = "Err"
       THEN [call |-> Err("make_proof_data", data.err), proof |-> << >>]
       ELSE [call |-> Ok("make_proof_data"), proof |-> data.proof]

\* lines 311-388: one iteration of the for loop
RowStep ==
    /\ pc = "rows"
    /\ ~RowsDone
    /\ response' = NoResponse
    /\ UNCHANGED << lib_call, LockVars >>
    /\ UNCHANGED << started, prover_log, post_log >>
    /\ LET row == eligible_queries[row_idx]
       IN \/ /\ RowSkipped(row)
             /\ row_idx' = row_idx + 1
             /\ UNCHANGED << tasks, pc, task, sibling_queries, assignment_id_map,
                             eligible_queries, signatures, used_keys, proofs,
                             row_failures, last_call >>
          \/ /\ ~RowSkipped(row)
             /\ row_failures < MaxRowFailures
             /\ \E call \in SnapshotErrors :
                   /\ last_call' = call
                   /\ RowFailed
          \/ /\ ~RowSkipped(row)
             /\ \E kind \in RowSnapshotKinds(row), details \in RowDetails(row) :
                   LET outcome == RowOutcome(row, kind, details)
                   IN \/ /\ outcome.call.result = "Err"
                         /\ row_failures < MaxRowFailures
                         /\ last_call' = outcome.call
                         /\ RowFailed
                      \/ /\ outcome.call.result = "Panic"
                         /\ Panic("make_proof_data")
                      \/ /\ outcome.call.result = "Ok"
                         /\ last_call' = outcome.call
                         /\ RowSucceeded(row, outcome.proof)

\* lines 392-400
ZkFailed(err) == FailTask("Failed to create zk proof: " \o err)

\* lines 390-407
BuildZkProof ==
    /\ pc = "rows"
    /\ RowsDone
    /\ response' = NoResponse
    /\ UNCHANGED << lib_call, LockVars >>
    /\ UNCHANGED << started, post_log >>
    /\ \/ Panic("build_zk_proof")
       \/ \E err \in ProverErrors :
             /\ last_call' = Err("build_zk_proof", err)
             /\ ZkFailed(err)
       \/ /\ last_call' = Ok("build_zk_proof")
          /\ Progress(Some("Got zk proof"))
          /\ pc' = "post"
          /\ UNCHANGED LoopLocals
    /\ prover_log' = MapInsert(prover_log, task.id,
                               [bundles |-> Len(proofs), result |-> last_call'.result])

\* the error arm recording success
PostFailed_completed(err) ==
    /\ tasks' = set_task_status(tasks, task.id, "Completed", Some("Transaction: "))
    /\ Continue

\* lines 420-428
PostFailed(err) == FailTask("Failed to post proof: " \o err)

\* lines 431-442
PostSucceeded(res) ==
    /\ tasks' = set_task_status(tasks, task.id, "Completed",
                                Some("Transaction: " \o HexJoin(res)))
    /\ Continue

\* lines 409-442
PostProof ==
    /\ pc = "post"
    /\ response' = NoResponse
    /\ UNCHANGED << lib_call, LockVars >>
    /\ UNCHANGED << started, prover_log >>
    /\ \/ \E err \in PostErrors :
             /\ last_call' = Err("post_proof", err)
             /\ post_log' = MapInsert(post_log, task.id, [ok |-> FALSE, tx |-> << >>])
             /\ PostFailed(err)
       \/ \E res \in TxHashes :
             /\ last_call' = Ok("post_proof")
             /\ post_log' = MapInsert(post_log, task.id, [ok |-> TRUE, tx |-> res])
             /\ PostSucceeded(res)

Next ==
    \/ \E body \in TaskDescriptions : submit_task(body.query_id, body.ts)
    \/ \E task_id \in QueriedIds : GetTaskStatus(task_id)
    \/ GetAllTasks
    \/ Scan
    \/ Wake
    \/ SetRunning
    \/ GetSiblings
    \/ GetAssignmentIdMap
    \/ GetSignatures
    \/ QuorumGate
    \/ RowStep
    \/ BuildZkProof
    \/ PostProof

Spec == Init /\ [][Next]_vars

\* a step of the spawned loop
LoopNext ==
    \/ Scan
    \/ Wake
    \/ SetRunning
    \/ GetSiblings
    \/ GetAssignmentIdMap
    \/ GetSignatures
    \/ QuorumGate
    \/ RowStep
    \/ BuildZkProof
    \/ PostProof

\* the runtime keeps polling the spawned future, the sleep ends and every external
\* call returns: the loop takes its next step as long as it has one
FairSpec == Spec /\ WF_vars(LoopNext)

(***************************************************************************)
(* The functions of src/src/lib.rs called on their own, on every argument  *)
(* up to a bound. The server does not run in this specification.           *)
(***************************************************************************)
MaxLibRows == 3

ServerVars == << tasks, LoopState, response, LockVars >>

\* all lists over S of at most n elements
Seqs(S, n) == UNION {[1 .. k -> S] : k \in 0 .. n}

\* rows of worker_query_logs: a query id may be logged more than once
LibRows ==
    {[query_id |-> i, worker_id |-> i, client_timestamp |-> t] :
        i \in 1 .. MaxLibRows, t \in {1999, 2999}}

\* what fetch_all of the sibling query may answer, in any order
LibFetched == Seqs(LibRows, MaxLibRows)

\* the sibling lists filter_eligible_queries is given by run_loop
LibSiblings == {get_siblings_queries(fetched) : fetched \in LibFetched}

\* the maps get_assignment_id_map may have built
LibIdMaps == {[id \in ids |-> "asg"] : ids \in SUBSET (1 .. MaxLibRows)}

\* the second of the first commitment the contract holds: before every row, between
\* the rows, after every row
LibFirstCommits == {0, 2, 3}

\* the timestamps a task may carry, over the whole of u64: below the tolerance, below
\* the search range, ordinary ones, around 2^32 and at the top of the range
LibTimestamps ==
    {U64(n) : n \in {0, 100, 299, 300, 301, 3599, 3600, 5000}}
    \cup {<< Limb - 301, Limb - 1, 0, 0 >>, << Limb - 300, Limb - 1, 0, 0 >>,
          << 5000, 0, 1, 0 >>,
          << Limb - 3600, Limb - 1, Limb - 1, Limb - 1 >>, U64Max}

\* the worker-side timestamps of the logged original query: around both ends of the
\* tolerance window of timestamp 5000, and around those of 2^32 + 5000
LibWorkerTimestamps ==
    {U64(n) : n \in {0, 1, 399, 400, 4699, 4700, 4701, 5000, 5299, 5300, 5301}}
    \cup {<< 4700, 0, 1, 0 >>, << 5000, 0, 1, 0 >>, << 5300, 0, 1, 0 >>}

\* the query ids a task may dispute: those of the rows, and one of no row
LibQueryIds == 1 .. MaxLibRows + 1

\* what fetch_all of the signature query may answer
LibSignatureRows == {SigRow(i, i, h) : i \in 1 .. MaxLibRows, h \in Hashes}
LibFetchedSignatures == Seqs(LibSignatureRows, MaxLibRows)

\* the workers asked about: those of the snapshots, and one of no snapshot
LibWorkers == {1, 2, 3}

LibCall(fn, args) == [fn |-> fn, args |-> args, returned |-> FALSE, ret |-> << >>]

LibCalls ==
    {LibCall("get_siblings_queries", [fetched |-> f]) : f \in LibFetched}
    \cup {LibCall("filter_eligible_queries",
                  [sibling_queries |-> rows, assignment_id_map |-> m, query_id |-> q]) :
             rows \in LibSiblings, m \in LibIdMaps, q \in LibQueryIds}
    \cup {LibCall("get_assignment_id_map", [sibling_queries |-> rows, first_commit |-> c]) :
             rows \in LibSiblings, c \in LibFirstCommits}
    \cup {LibCall("original_query",
                  [store |-> << [query_id |-> 1, worker_timestamp |-> wt] >>,
                   query_id |-> 1, ts |-> ts, overflow_checks |-> checks]) :
             wt \in LibWorkerTimestamps, ts \in LibTimestamps, checks \in BOOLEAN}
    \cup {LibCall("get_signatures", [fetched |-> f, original_query_id |-> q]) :
             f \in LibFetchedSignatures, q \in LibQueryIds}
    \cup {LibCall("make_mpt_proof",
                  [snapshot |-> snapshot, dataset_id |-> d, chunk_id |-> c, worker_id |-> w]) :
             snapshot \in Snapshots, d \in Datasets, c \in Chunks, w \in LibWorkers}

LibInit ==
    /\ tasks = EmptyMap
    /\ pc = "scan"
    /\ task = NoTask
    /\ sibling_queries = << >>
    /\ assignment_id_map = EmptyMap
    /\ eligible_queries = << >>
    /\ signatures = EmptyMap
    /\ used_keys = {}
    /\ proofs = << >>
    /\ row_idx = 0
    /\ row_failures = 0
    /\ last_call = NoCall
    /\ started = [id \in TaskIds |-> 0]
    /\ prover_log = EmptyMap
    /\ post_log = EmptyMap
    /\ response = NoResponse
    /\ lib_call \in LibCalls
    /\ LockIdle

Returns(fn, ret) ==
    /\ lib_call.fn = fn
    /\ ~lib_call.returned
    /\ lib_call' = [lib_call EXCEPT !.returned = TRUE, !.ret = ret]
    /\ UNCHANGED ServerVars

LibGetSiblingsQueries ==
    Returns("get_siblings_queries", get_siblings_queries(lib_call.args.fetched))

LibFilterEligibleQueries ==
    Returns("filter_eligible_queries",
            filter_eligible_queries(lib_call.args.sibling_queries,
                                    lib_call.args.assignment_id_map,
                                    lib_call.args.query_id))

LibGetAssignmentIdMap ==
    /\ lib_call.fn = "get_assignment_id_map"
    /\ Returns("get_assignment_id_map",
               get_assignment_id_map(lib_call.args.sibling_queries, lib_call.args.first_commit))

\* the first fetch of get_siblings_queries
LibOriginalQuery ==
    /\ lib_call.fn = "original_query"
    /\ Returns("original_query",
               original_query(lib_call.args.store, lib_call.args.query_id,
                              lib_call.args.ts, lib_call.args.overflow_checks))

LibGetSignatures ==
    /\ lib_call.fn = "get_signatures"
    /\ LET maps == get_signatures(lib_call.args.fetched, lib_call.args.original_query_id)
       IN \/ /\ maps = {}
             /\ Returns("get_signatures",
                        [result |-> "Err", err |-> "Plurality not found", map |-> EmptyMap])
          \/ \E map \in maps :
                Returns("get_signatures", [result |-> "Ok", err |-> "", map |-> map])

\* populate_trie, trie.root_hash() and make_mpt_proof as run_loop calls them for a row
LibMakeMptProof ==
    /\ lib_call.fn = "make_mpt_proof"
    /\ Returns("make_mpt_proof",
               make_mpt_proof(populate_trie(lib_call.args.dataset_id, lib_call.args.snapshot),
                              lib_call.args.dataset_id,
                              lib_call.args.chunk_id,
                              lib_call.args.worker_id))

LibNext ==
    \/ LibGetSiblingsQueries
    \/ LibFilterEligibleQueries
    \/ LibGetAssignmentIdMap
    \/ LibOriginalQuery
    \/ LibGetSignatures
    \/ LibMakeMptProof

LibSpec == LibInit /\ [][LibNext]_vars

\* the call of fn has returned
Returned(fn) == lib_call.fn = fn /\ lib_call.returned

(***************************************************************************)
(* The locking of the task map, step by step: the loop between its locks   *)
(* and its awaits, and the handlers of two requests at a time. What the    *)
(* critical sections read and write is left to Spec.                       *)
(***************************************************************************)
DataVars == << tasks, LoopState, response, lib_call >>

LockInit ==
    /\ tasks = EmptyMap
    /\ pc = "scan"
    /\ task = NoTask
    /\ sibling_queries = << >>
    /\ assignment_id_map = EmptyMap
    /\ eligible_queries = << >>
    /\ signatures = EmptyMap
    /\ used_keys = {}
    /\ proofs = << >>
    /\ row_idx = 0
    /\ row_failures = 0
    /\ last_call = NoCall
    /\ started = [id \in TaskIds |-> 0]
    /\ prover_log = EmptyMap
    /\ post_log = EmptyMap
    /\ response = NoResponse
    /\ lib_call = NoLibCall
    /\ LockIdle

\* a guard of the scan that lives on after the block
ScanGuardDropped_heldOn(holder) == holder

\* main.rs line 194: the block of the scan ends, tasks_lock is dropped
ScanGuardDropped(holder) == "free"

\* main.rs line 152: set_task_status returns, tasks_lock is dropped
StatusGuardDropped(holder) == "free"

\* a handler returns its Json, tasks_lock is dropped
HandlerGuardDropped(holder) == "free"

\* lines 186-187: local_tasks.lock().unwrap() of the scan
LoopLocksScan ==
    /\ loop_at.op = "lock_scan"
    /\ lock = "free"
    /\ lock' = "loop"
    /\ loop_at' = LoopAt("scan", 0, FALSE)
    /\ UNCHANGED << handler_at, DataVars >>

\* lines 188-194: the for loop over the map finds a Pending task or none, the block ends
LoopScans ==
    /\ loop_at.op = "scan"
    /\ lock' = ScanGuardDropped(lock)
    /\ \E found \in BOOLEAN :
          loop_at' = IF found THEN LoopAt("lock_status", 0, FALSE)
                     ELSE LoopAt("sleep", 0, FALSE)
    /\ UNCHANGED << handler_at, DataVars >>

\* lines 198-199: sleep(..).await is over; continue
LoopWakes ==
    /\ loop_at.op = "sleep"
    /\ loop_at' = LoopAt("lock_scan", 0, FALSE)
    /\ UNCHANGED << lock, handler_at, DataVars >>

\* line 148: tasks.lock().unwrap() of set_task_status
LoopLocksStatus ==
    /\ loop_at.op = "lock_status"
    /\ lock = "free"
    /\ lock' = "loop"
    /\ loop_at' = LoopAt("status", loop_at.call, loop_at.failed)
    /\ UNCHANGED << handler_at, DataVars >>

\* where the loop goes after the set_task_status that follows Calls[call]: to the scan
\* after Failed and after Completed; after "Got signatures" to the Failed of the quorum
\* check or to the rows; after "Got proofs" to the next row or to the prover
AfterStatus(call, failed) ==
    IF failed \/ call = Len(Calls) THEN {LoopAt("lock_scan", 0, FALSE)}
    ELSE IF call = 3
    THEN {LoopAt("lock_status", 3, TRUE), LoopAt("call", 4, FALSE), LoopAt("call", 5, FALSE)}
    ELSE IF call = 4 THEN {LoopAt("call", 4, FALSE), LoopAt("call", 5, FALSE)}
    ELSE {LoopAt("call", call + 1, FALSE)}

\* lines 149-152: set_task_status writes the task and returns
LoopSetsStatus ==
    /\ loop_at.op = "status"
    /\ lock' = StatusGuardDropped(lock)
    /\ loop_at' \in AfterStatus(loop_at.call, loop_at.failed)
    /\ UNCHANGED << handler_at, DataVars >>

\* where the loop goes when Calls[call] returns: to the set_task_status of its Ok or
\* of its Err arm; a row that failed is left for the next row or the prover
AfterCall(call) ==
    IF call = 4
    THEN {LoopAt("lock_status", 4, FALSE), LoopAt("call", 4, FALSE), LoopAt("call", 5, FALSE)}
    ELSE {LoopAt("lock_status", call, FALSE), LoopAt("lock_status", call, TRUE)}

\* the .await of Calls[loop_at.call] is over
LoopCallReturns ==
    /\ loop_at.op = "call"
    /\ loop_at' \in AfterCall(loop_at.call)
    /\ UNCHANGED << lock, handler_at, DataVars >>

\* a request reaches get_all_tasks, get_task_status or submit_task
HandlerStarts(h) ==
    /\ handler_at[h] = "idle"
    /\ handler_at' = [handler_at EXCEPT ![h] = "lock"]
    /\ UNCHANGED << lock, loop_at, DataVars >>

\* lines 82, 90, 164: state.tasks.lock().unwrap()
HandlerLocks(h) ==
    /\ handler_at[h] = "lock"
    /\ lock = "free"
    /\ lock' = h
    /\ handler_at' = [handler_at EXCEPT ![h] = "body"]
    /\ UNCHANGED << loop_at, DataVars >>

\* lines 83-85, 91-102, 165-176: the handler reads or writes the map and returns
HandlerReturns(h) ==
    /\ handler_at[h] = "body"
    /\ lock' = HandlerGuardDropped(lock)
    /\ handler_at' = [handler_at EXCEPT ![h] = "idle"]
    /\ UNCHANGED << loop_at, DataVars >>

LockNext ==
    \/ LoopLocksScan
    \/ LoopScans
    \/ LoopWakes
    \/ LoopLocksStatus
    \/ LoopSetsStatus
    \/ LoopCallReturns
    \/ \E h \in Handlers : HandlerStarts(h)
    \/ \E h \in Handlers : HandlerLocks(h)
    \/ \E h \in Handlers : HandlerReturns(h)

LockSpec == LockInit /\ [][LockNext]_vars

(***************************************************************************)
(* Properties.                                                             *)
(***************************************************************************)
StatusOf(id) == tasks[id].status
Terminal == {"Completed", "Failed"}
NotEnoughComment == "Not enough evidence to create fraud proof"

\* C1: a stored task is never removed; its status only moves Pending -> Running ->
\* (Completed | Failed); once it is Completed or Failed neither its status nor its
\* comment changes again, and a Running task never goes back to Pending.
C1_StatusOnlyAdvances ==
    [][\A id \in DOMAIN tasks :
          /\ id \in DOMAIN tasks'
          /\ tasks[id].status = "Pending" => tasks'[id].status \in {"Pending", "Running"}
          /\ tasks[id].status = "Running" => tasks'[id].status \in {"Running"} \cup Terminal
          /\ tasks[id].status \in Terminal =>
                /\ tasks'[id].status = tasks[id].status
                /\ tasks'[id].comment = tasks[id].comment]_vars

\* C1 witness: one task is Completed and another one is Running with a progress comment
C1_Witness ==
    \E a, b \in DOMAIN tasks :
        /\ StatusOf(a) = "Completed"
        /\ StatusOf(b) = "Running"
        /\ tasks[b].comment = "Got signatures"

\* C2: at most one task is Running, so a Pending task is never set Running while
\* another task is Running.
C2_AtMostOneRunning ==
    Cardinality({id \in DOMAIN tasks : StatusOf(id) = "Running"}) <= 1

\* C2 witness: a task is Pending while another is Running in the middle of its pipeline
C2_Witness ==
    \E a, b \in DOMAIN tasks :
        /\ StatusOf(a) = "Running"
        /\ StatusOf(b) = "Pending"
        /\ pc = "rows"

\* C3: at the quorum check, fewer than 5 eligible rows or fewer than 5 consensus
\* signatures make the task Failed with the not-enough-evidence comment; evidence
\* assembly and proof submission only ever run with both at 5 or more, and a task
\* failed by the check has no prover call and no proof submission.
C3_QuorumGating ==
    /\ [][(/\ pc = "quorum"
           /\ pc' # "quorum"
           /\ \/ Len(eligible_queries) < 5
              \/ Cardinality(DOMAIN signatures) < 5)
          => /\ tasks'[task.id].status = "Failed"
             /\ tasks'[task.id].comment = NotEnoughComment
             /\ pc' = "scan"
             /\ prover_log' = prover_log
             /\ post_log' = post_log]_vars
    /\ [](pc \in {"rows", "post"} =>
             /\ Len(eligible_queries) >= 5
             /\ Cardinality(DOMAIN signatures) >= 5)
    /\ [](\A id \in DOMAIN tasks :
             tasks[id].comment = NotEnoughComment =>
                /\ StatusOf(id) = "Failed"
                /\ id \notin DOMAIN prover_log
                /\ id \notin DOMAIN post_log)

\* C3 witness: a task failed by the quorum check, the prover never called for it,
\* while the loop has gone on to assemble evidence for another task
C3_Witness ==
    \E id \in DOMAIN tasks :
        /\ StatusOf(id) = "Failed"
        /\ tasks[id].comment = NotEnoughComment
        /\ id \notin DOMAIN prover_log
        /\ pc = "rows"

\* C4 (as claimed): the prover is only ever handed exactly 5 bundles.
C4_ProverGetsQuorum ==
    \A id \in DOMAIN prover_log :
        prover_log[id].bundles = NUMBER_OF_EVIDENCES_IN_ZK_PROOF

StepErrorComment(call) ==
    "Got " \o call.err \o
        (CASE call.fn = "get_siblings_queries" -> " while searching for siblings"
           [] call.fn = "get_assignment_id_map" -> " while quering contract"
           [] call.fn = "get_signatures" -> " while getting signatures")

StepErrorComments ==
    {StepErrorComment(Err(fn, err)) :
        fn \in {"get_siblings_queries", "get_assignment_id_map", "get_signatures"},
        err \in SiblingErrors \cup ContractErrors \cup SignatureErrors
                    \cup {"Plurality not found"}}

\* C6: when get_siblings_queries, get_assignment_id_map or get_signatures returns an
\* error, the task becomes Failed with a comment carrying that error, the loop goes
\* back to its scan, and such a task has no prover call and no proof submission.
C6_StepErrorFailsTask ==
    /\ [][(/\ pc \in {"siblings", "assignment", "signatures"}
           /\ last_call'.result = "Err")
          => /\ tasks'[task.id].status = "Failed"
             /\ tasks'[task.id].comment = StepErrorComment(last_call')
             /\ \A id \in DOMAIN tasks : id # task.id => tasks'[id] = tasks[id]
             /\ pc' = "scan"
             /\ proofs' = << >>
             /\ prover_log' = prover_log
             /\ post_log' = post_log]_vars
    /\ [](\A id \in DOMAIN tasks :
             tasks[id].comment \in StepErrorComments =>
                /\ StatusOf(id) = "Failed"
                /\ id \notin DOMAIN prover_log
                /\ id \notin DOMAIN post_log)

\* C6 witness: the consensus step failed for one task and the loop has picked the next
C6_Witness ==
    \E id \in DOMAIN tasks :
        /\ StatusOf(id) = "Failed"
        /\ tasks[id].comment = "Got Plurality not found while getting signatures"
        /\ pc = "picked"
        /\ task.id # id

\* C7: the loop sets a task Running(None) at most once, and the task its scan picks
\* has never been started: a task that left Pending is never selected again.
C7_PickedAtMostOnce ==
    /\ \A id \in TaskIds : started[id] <= 1
    /\ \A id \in DOMAIN tasks : StatusOf(id) # "Pending" => started[id] = 1
    /\ pc = "picked" => started[task.id] = 0 /\ StatusOf(task.id) = "Pending"

\* C7 witness: a scan that found nothing to do although a Failed task is stored
C7_Witness ==
    /\ pc = "sleep"
    /\ \E id \in DOMAIN tasks : StatusOf(id) = "Failed"
    /\ \E id \in DOMAIN tasks : StatusOf(id) = "Completed"

\* the comment of a Completed task, for the transaction hashes post_proof may return
TransactionComment(res) ==
    CASE res = << 10, 27 >> -> "Transaction: 0a1b"
      [] res = << 255, 0 >> -> "Transaction: ff00"

\* C8: a task is Completed only if the prover returned a proof for it and post_proof
\* then returned a transaction hash, and its comment is that hash in hex; a prover
\* error or a submission error leaves the task Failed.
C8_CompletedOnlyAfterPost ==
    \A id \in DOMAIN tasks :
        /\ StatusOf(id) = "Completed" =>
              /\ id \in DOMAIN prover_log
              /\ prover_log[id].result = "Ok"
              /\ id \in DOMAIN post_log
              /\ post_log[id].ok
              /\ tasks[id].comment = TransactionComment(post_log[id].tx)
        /\ (id \in DOMAIN prover_log /\ prover_log[id].result = "Err") =>
              /\ StatusOf(id) = "Failed"
              /\ id \notin DOMAIN post_log
        /\ (id \in DOMAIN post_log /\ ~post_log[id].ok) => StatusOf(id) = "Failed"
        /\ id \in DOMAIN post_log =>
              id \in DOMAIN prover_log /\ prover_log[id].result = "Ok"

\* C8 witness: one task Completed and one Failed by the proof submission
C8_Witness ==
    \E a, b \in DOMAIN tasks :
        /\ StatusOf(a) = "Completed"
        /\ StatusOf(b) = "Failed"
        /\ b \in DOMAIN post_log

\* C9: submit_task adds exactly one task under an id no task had, Pending, without
\* comment, with the query id and timestamp of the request; it changes no other task
\* and nothing of the loop.
C9_SubmitAddsOnePending ==
    [][(response'.kind = "submit_task" /\ response' # response)
       => LET task_id == response'.json
          IN /\ task_id \notin DOMAIN tasks
             /\ DOMAIN tasks' = DOMAIN tasks \cup {task_id}
             /\ tasks'[task_id] = [id |-> task_id,
                                   query_id |-> response'.request.query_id,
                                   ts |-> response'.request.ts,
                                   status |-> "Pending",
                                   comment |-> None]
             /\ \A id \in DOMAIN tasks : tasks'[id] = tasks[id]
             /\ UNCHANGED LoopState]_vars

\* C9 witness: a task was just submitted while another task's evidence is assembled
C9_Witness ==
    /\ response.kind = "submit_task"
    /\ Cardinality(DOMAIN tasks) = 2
    /\ pc = "rows"
    /\ Len(proofs) > 0

C11_SiblingsDeduplicated ==
    Returned("get_siblings_queries") =>
        LET fetched == lib_call.args.fetched
            out == lib_call.ret
        IN /\ \A i, j \in 1 .. Len(out) : i # j => out[i].query_id # out[j].query_id
           /\ SeqIds(out) = SeqIds(fetched)
           /\ Elems(out) \subseteq Elems(fetched)

\* C11 witness: a query id fetched twice with another one in between, returned once
C11_Witness ==
    /\ Returned("get_siblings_queries")
    /\ Len(lib_call.args.fetched) = 3
    /\ lib_call.args.fetched[1].query_id = lib_call.args.fetched[3].query_id
    /\ lib_call.args.fetched[1].query_id # lib_call.args.fetched[2].query_id
    /\ Len(lib_call.ret) = 2

\* C12: for sibling rows of pairwise distinct query ids, the output of
\* filter_eligible_queries has the row of the disputed query id at index 0 when it is
\* among the output, and the other rows in non-increasing order of client timestamp.
C12_DisputedFirstThenNewest ==
    Returned("filter_eligible_queries") =>
        LET out == lib_call.ret
            q == lib_call.args.query_id
            rest == {k \in 1 .. Len(out) : out[k].query_id # q}
        IN /\ q \in SeqIds(out) => out[1].query_id = q
           /\ \A i, j \in rest : i < j => out[i].client_timestamp >= out[j].client_timestamp

\* C12 witness: the disputed row came last and older rows came first in the input
C12_Witness ==
    /\ Returned("filter_eligible_queries")
    /\ Len(lib_call.args.sibling_queries) = 3
    /\ Len(lib_call.ret) = 3
    /\ lib_call.args.sibling_queries[3].query_id = lib_call.args.query_id
    /\ lib_call.args.sibling_queries[1].client_timestamp
          < lib_call.args.sibling_queries[2].client_timestamp
    /\ lib_call.ret[1].query_id = lib_call.args.query_id

\* C13: when a signature record of the disputed query id was fetched, get_signatures
\* returns a map with an entry for the disputed query id, whatever its result hash.
C13_DisputedSignatureKept ==
    (Returned("get_signatures")
        /\ lib_call.args.original_query_id \in SeqIds(lib_call.args.fetched))
    => /\ lib_call.ret.result = "Ok"
       /\ lib_call.args.original_query_id \in DOMAIN lib_call.ret.map

\* C13 witness: the disputed record has hash H2, two other records agree on H1
C13_Witness ==
    /\ Returned("get_signatures")
    /\ Tally(lib_call.args.fetched, "H1") = 2
    /\ lib_call.args.original_query_id \in DOMAIN lib_call.ret.map
    /\ lib_call.ret.map[lib_call.args.original_query_id].result_hash = "H2"

\* C19: every entry of the map get_signatures returns is a fetched record, and there
\* is a hash whose tally over the fetched records is not smaller than any other
\* hash's such that every entry has that hash or belongs to the disputed query id.
C19_OnlyPluralityOrDisputed ==
    (Returned("get_signatures") /\ lib_call.ret.result = "Ok") =>
        LET fetched == lib_call.args.fetched
            map == lib_call.ret.map
            Count(h) == Cardinality({k \in 1 .. Len(fetched) : fetched[k].result_hash = h})
        IN /\ \A id \in DOMAIN map :
                 \E k \in 1 .. Len(fetched) :
                    /\ fetched[k].query_id = id
                    /\ fetched[k].result_hash = map[id].result_hash
                    /\ fetched[k].worker_signature = map[id].worker_signature
           /\ \E p \in Hashes :
                 /\ \A g \in Hashes : Count(g) <= Count(p)
                 /\ \A id \in DOMAIN map :
                       \/ map[id].result_hash = p
                       \/ id = lib_call.args.original_query_id

\* C19 witness: of three records of three queries, the one with the minority hash,
\* not the disputed one, is left out
C19_Witness ==
    /\ Returned("get_signatures")
    /\ Len(lib_call.args.fetched) = 3
    /\ Cardinality(SeqIds(lib_call.args.fetched)) = 3
    /\ Tally(lib_call.args.fetched, "H2") = 1
    /\ Cardinality(DOMAIN lib_call.ret.map) = 2

\* C20: the call of get_signatures returns an error exactly when its fetch failed or
\* answered no record; with a record it returns a map and the loop goes on to the
\* quorum check, and on the error the task becomes Failed and the loop scans again.
C20_ErrorIffNoSignature ==
    [][(pc = "signatures" /\ last_call'.fn = "get_signatures")
       => /\ IF last_call'.err \in SignatureErrors
             THEN last_call'.result = "Err"
             ELSE (last_call'.result = "Err") <=> (last_call'.fetched = 0)
          /\ last_call'.result = "Err" =>
                /\ tasks'[task.id].status = "Failed"
                /\ pc' = "scan"
          /\ last_call'.result # "Err" =>
                /\ last_call'.result = "Ok"
                /\ last_call'.fetched > 0
                /\ tasks'[task.id].status = "Running"
                /\ pc' = "quorum"]_vars

\* C20 witness: a task Failed because the fetch answered no signature record
C20_Witness ==
    /\ last_call = Fetched(Err("get_signatures", "Plurality not found"), << >>)
    /\ \E id \in DOMAIN tasks :
          /\ StatusOf(id) = "Failed"
          /\ tasks[id].comment = "Got Plurality not found while getting signatures"

\* the call of make_mpt_proof asks about a chunk of the snapshot and a worker listed
\* for it (present), or not listed for it (~present)
AsksAbout(present) ==
    /\ Returned("make_mpt_proof")
    /\ lib_call.args.chunk_id \in DOMAIN lib_call.args.snapshot
    /\ present <=> (lib_call.args.worker_id
                        \in Elems(lib_call.args.snapshot[lib_call.args.chunk_id]))

\* C17 (as claimed): for every snapshot, after populate_trie, make_mpt_proof succeeds
\* for every (dataset, chunk, worker) of the snapshot, and the value of the last node
\* of its proof is the chunk's worker list, sorted.
C17_TrieRoundTrip ==
    AsksAbout(TRUE) =>
        /\ lib_call.ret.result = "Ok"
        /\ LET proof == lib_call.ret.proof
               leaf == proof[Len(proof)]
           IN /\ leaf.kind = "leaf"
              /\ Elems(leaf.value) = Elems(lib_call.args.snapshot[lib_call.args.chunk_id])
              /\ \A i, j \in 1 .. Len(leaf.value) : i < j => leaf.value[i] < leaf.value[j]

\* the round trip where no other chunk's key has the same first 8 bytes
C17_RoundTripWithoutSharedPrefix ==
    (AsksAbout(TRUE)
        /\ \A c \in DOMAIN lib_call.args.snapshot :
              c # lib_call.args.chunk_id =>
                 SubSeq(Keccak(ChunkKey(lib_call.args.dataset_id, c)), 1, 2 * LookupBytes)
                    # SubSeq(Keccak(ChunkKey(lib_call.args.dataset_id, lib_call.args.chunk_id)),
                             1, 2 * LookupBytes))
    => /\ lib_call.ret.result = "Ok"
       /\ lib_call.ret.proof[Len(lib_call.ret.proof)].kind = "leaf"
       /\ lib_call.ret.proof[Len(lib_call.ret.proof)].value
             = SortWorkers(lib_call.args.snapshot[lib_call.args.chunk_id])

\* C18: for a chunk of the trie and a worker id not among the chunk's workers,
\* make_mpt_proof returns an error and no proof.
C18_UnassignedWorkerRejected ==
    AsksAbout(FALSE) =>
        /\ lib_call.ret.result = "Err"
        /\ lib_call.ret.proof = << >>

\* C18 witness: the trie holds several chunks, the chunk asked about has two workers,
\* and the worker asked about is of another chunk only
C18_Witness ==
    /\ AsksAbout(FALSE)
    /\ lib_call.ret.err = "Wrong assignment"
    /\ lib_call.args.chunk_id = "c3"
    /\ DOMAIN lib_call.args.snapshot = {"c1", "c3", "c4"}
    /\ lib_call.args.snapshot["c3"] = << 2 >>
    /\ lib_call.args.snapshot["c4"] = << 2, 1 >>
    /\ lib_call.args.worker_id = 1

\* the worker ids and the query ids of the bundles collected
BundleWorkers == {proofs[k].worker_id : k \in 1 .. Len(proofs)}
BundleQueries == {proofs[k].query.query_id : k \in 1 .. Len(proofs)}

\* C14: the bundles of a task have pairwise distinct worker ids, which are exactly the
\* used worker ids; a row whose worker is used is passed over without a bundle; a row
\* that failed adds no worker id to the used ones.
C14_OneBundlePerWorker ==
    /\ [](\A i, j \in 1 .. Len(proofs) : i # j => proofs[i].worker_id # proofs[j].worker_id)
    /\ [](pc \in {"rows", "post"} => used_keys = BundleWorkers)
    /\ [][(/\ pc = "rows"
           /\ row_idx' = row_idx + 1
           /\ eligible_queries[row_idx].worker_id \in used_keys)
          => proofs' = proofs /\ used_keys' = used_keys]_vars
    /\ [][(pc = "rows" /\ row_idx' = row_idx + 1 /\ last_call' \in RowErrors
              /\ last_call' # last_call)
          => used_keys' = used_keys]_vars

\* C14 witness: all six rows were gone through, one failed, and the last one was
\* passed over because an earlier row of its worker had given a bundle
C14_Witness ==
    /\ pc = "rows"
    /\ Len(eligible_queries) = 6
    /\ row_idx = 7
    /\ row_failures = 1
    /\ Len(proofs) = 4
    /\ last_call.result = "Ok"
    /\ eligible_queries[6].query_id \in DOMAIN signatures
    /\ eligible_queries[6].worker_id \in used_keys
    /\ eligible_queries[6].query_id \notin BundleQueries

\* the errors of the checks of make_mpt_proof and make_proof_data
CheckErrors == RowErrors \ SnapshotErrors

\* the bundle carries a query signature of its client for its worker and a result
\* signature of its worker
SignaturesVerify(bundle) ==
    /\ bundle.query.signature
          = Sign(bundle.client_id, QueryMessage(bundle.query, bundle.worker_id))
    /\ bundle.query_result.worker_id = bundle.worker_id
    /\ bundle.query_result.worker_signature
          = Sign(bundle.worker_id, ResultMessage(bundle.query_result))

\* C15 (as claimed): every bundle collected passed both signature checks, and its
\* proof ends in the leaf of its query's chunk, which lists its worker: the worker is
\* confirmed in the chunk's assignment.
C15_BundlesAreVerified ==
    \A k \in 1 .. Len(proofs) :
        LET bundle == proofs[k]
            leaf == bundle.mpt_proof[Len(bundle.mpt_proof)]
        IN /\ SignaturesVerify(bundle)
           /\ bundle.mpt_proof # << >>
           /\ leaf.kind = "leaf"
           /\ leaf.key = Keccak(ChunkKey(bundle.query.dataset, bundle.query.chunk_id))
           /\ bundle.worker_id \in Elems(leaf.value)

\* what does hold of the checks: every bundle passed both signature checks and has a
\* proof ending in a leaf that lists its worker, and a row for which make_mpt_proof or
\* make_proof_data returned an error adds no bundle
C15_ChecksReturnedOk ==
    /\ [](\A k \in 1 .. Len(proofs) :
             LET bundle == proofs[k]
                 leaf == bundle.mpt_proof[Len(bundle.mpt_proof)]
             IN /\ SignaturesVerify(bundle)
                /\ bundle.mpt_proof # << >>
                /\ leaf.kind = "leaf"
                /\ bundle.worker_id \in Elems(leaf.value))
    /\ [][(pc = "rows" /\ row_idx' = row_idx + 1 /\ last_call' \in CheckErrors
              /\ last_call' # last_call)
          => proofs' = proofs]_vars

\* the scenario: six siblings of six workers, all with an assignment id, one of them
\* the disputed query
ScenarioSiblings ==
    /\ Len(sibling_queries) = 6
    /\ Cardinality({sibling_queries[k].worker_id : k \in 1 .. 6}) = 6
    /\ DOMAIN assignment_id_map = SeqIds(sibling_queries)
    /\ task.query_id \in SeqIds(sibling_queries)

\* a consensus map of the scenario: the disputed record with H2, the five others with H1
ScenarioSignatures(sigs) ==
    /\ DOMAIN sigs = SeqIds(sibling_queries)
    /\ Cardinality(DOMAIN sigs) = 6
    /\ \A id \in DOMAIN sigs :
          sigs[id].result_hash = (IF id = task.query_id THEN "H2" ELSE "H1")

Scenario ==
    /\ pc \in {"quorum", "rows", "post"}
    /\ ScenarioSiblings
    /\ ScenarioSignatures(signatures)

\* C16: in the scenario, get_signatures fetching five H1 records and the disputed H2
\* record gives a map of all six; the disputed row is first of the six eligible rows;
\* the quorum check passes; with no row failing the loop ends with exactly 5 bundles,
\* the first of them the disputed row's; the task is Running until post_proof returns,
\* and Completed then.
C16_EndToEnd ==
    /\ [][(/\ pc = "signatures"
           /\ ScenarioSiblings
           /\ last_call'.fn = "get_signatures"
           /\ last_call'.result = "Ok"
           /\ last_call'.tally = [h \in Hashes |-> IF h = "H1" THEN 5 ELSE 1]
           /\ signatures'[task.query_id].result_hash = "H2")
          => /\ ScenarioSignatures(signatures')
             /\ Len(eligible_queries') = 6
             /\ eligible_queries'[1].query_id = task.query_id
             /\ pc' = "quorum"]_vars
    /\ [][(Scenario /\ pc = "quorum" /\ pc' # pc) => pc' = "rows"]_vars
    /\ [](Scenario => tasks[task.id].status = "Running")
    /\ []((Scenario /\ row_failures = 0 /\ (pc = "post" \/ (pc = "rows" /\ RowsDone)))
             => /\ Len(proofs) = 5
                /\ proofs[1].query.query_id = task.query_id
                /\ BundleQueries = {eligible_queries[k].query_id : k \in 1 .. 5})
    /\ [][(Scenario /\ pc = "post" /\ last_call' = Ok("post_proof"))
          => tasks'[task.id].status = "Completed"]_vars

\* C16 witness: the scenario with the prover done: 5 bundles, the disputed row's first
C16_Witness ==
    /\ Scenario
    /\ pc = "post"
    /\ row_failures = 0
    /\ Len(proofs) = 5
    /\ proofs[1].query.query_id = task.query_id
    /\ proofs[1].query_result.result.data_hash = "H2"
    /\ tasks[task.id].comment = "Got zk proof"

\* how many times x is in a Vec
Count(rows, x) == Cardinality({k \in 1 .. Len(rows) : rows[k] = x})

\* C21: filter_eligible_queries returns each sibling row whose query id is a key of the
\* assignment-id map as many times as it was given and no other row; the map
\* get_assignment_id_map returns has a key for a sibling's query id exactly when the
\* contract answered a non-empty id for that row's client timestamp in seconds, and
\* holds that id.
C21_EligibleAreTheResolved ==
    /\ Returned("filter_eligible_queries") =>
          LET rows == lib_call.args.sibling_queries
              id_map == lib_call.args.assignment_id_map
          IN /\ \A row \in Elems(rows) \cup Elems(lib_call.ret) :
                   Count(lib_call.ret, row)
                     = IF row.query_id \in DOMAIN id_map THEN Count(rows, row) ELSE 0
    /\ Returned("get_assignment_id_map") =>
          LET rows == lib_call.args.sibling_queries
              Answer(row) == get_id_by_timestamp(lib_call.args.first_commit,
                                                 row.client_timestamp \div 1000)
          IN /\ DOMAIN lib_call.ret = {row.query_id : row \in {r \in Elems(rows) : Answer(r) # ""}}
             /\ \A row \in Elems(rows) :
                   Answer(row) # "" => lib_call.ret[row.query_id] = Answer(row)

\* C21 witness: of three siblings the contract knew an assignment for the newer ones
\* only, and the map has exactly their query ids
C21_Witness ==
    /\ Returned("get_assignment_id_map")
    /\ Len(lib_call.args.sibling_queries) = 3
    /\ Cardinality(DOMAIN lib_call.ret) = 2

\* the bounds of the tolerance window of the call are the numbers ts - ts_tolerance
\* and ts + ts_tolerance: nothing wrapped, nothing was cut by the narrowing
ExactWindow(ts) == ~ToleranceWindow(ts).overflow /\ ~ToleranceWindow(ts).narrowed

\* C23 (as claimed): the lookup of the original query matches the row when its
\* worker-side timestamp lies in [ts - tolerance, ts + tolerance], the two ends included.
C23_ClosedToleranceWindow ==
    (/\ Returned("original_query")
     /\ ExactWindow(lib_call.args.ts)
     /\ InWindow_closed(ToleranceWindow(lib_call.args.ts),
                        lib_call.args.store[1].worker_timestamp))
    => lib_call.ret.result = "Ok"

\* what does hold of the lookup: it matches the row exactly when its worker-side
\* timestamp lies strictly between ts - tolerance and ts + tolerance
C23_OpenToleranceWindow ==
    (Returned("original_query") /\ ExactWindow(lib_call.args.ts))
    => LET wt == lib_call.args.store[1].worker_timestamp
           lo == SubU64(lib_call.args.ts, U64(ts_tolerance)).value
           hi == AddU64(lib_call.args.ts, U64(ts_tolerance)).value
       IN lib_call.ret.result = "Ok" <=> (LessU64(lo, wt) /\ LessU64(wt, hi))

\* C25 (as claimed): whatever timestamp the task of the loop carries, the call of
\* get_siblings_queries computes the bounds of its windows without underflow or
\* overflow, and the loop is not ended by it.
C25_WindowsNeverWrap ==
    [][(pc = "siblings" /\ pc' # "siblings")
          => (~WindowUnderflows(task.ts) /\ pc' # "crashed")]_vars

\* the same over the u64 range, for the lookup of the original query on its own: no
\* bound wraps or is cut by the narrowing to u32, and the call does not panic
C25_BoundsExactOverU64 ==
    Returned("original_query")
    => /\ ExactWindow(lib_call.args.ts)
       /\ ~SearchWindow(lib_call.args.ts).overflow
       /\ lib_call.ret.result # "Panic"

\* what does hold: from ts_search_range up to 2^32 - 1 - ts_tolerance every bound is
\* exact and the call does not panic
C25_BoundsExactInRange ==
    (/\ Returned("original_query")
     /\ ~LessU64(lib_call.args.ts, U64(ts_search_range))
     /\ ~LessU64(<< Limb - 1 - ts_tolerance, Limb - 1, 0, 0 >>, lib_call.args.ts))
    => /\ ExactWindow(lib_call.args.ts)
       /\ ~SearchWindow(lib_call.args.ts).overflow
       /\ lib_call.ret.result # "Panic"

\* C24 (as claimed): every task submitted is eventually Completed or Failed.
C24_EveryTaskTerminates ==
    \A id \in TaskIds :
        [](id \in DOMAIN tasks => <>(id \in DOMAIN tasks /\ StatusOf(id) \in Terminal))

\* what does hold: the loop stops taking steps only by a panic, and as long as it has
\* not panicked every task submitted is eventually Completed or Failed
C24_TerminatesUnlessPanicked ==
    \A id \in TaskIds :
        [](id \in DOMAIN tasks
              => <>(pc = "crashed" \/ (id \in DOMAIN tasks /\ StatusOf(id) \in Terminal)))

\* C22: while the loop is suspended in an external call or in its sleep it does not
\* hold the lock of the task map; the lock is only ever held by the loop inside its
\* scan or inside set_task_status, or by a handler inside its body, so a handler
\* waiting for the lock while the loop is suspended finds it free or held by another
\* handler about to return.
C22_NoLockAcrossAwait ==
    /\ Suspended => lock # "loop"
    /\ lock = "loop" => loop_at.op \in {"scan", "status"}
    /\ \A h \in Handlers :
          /\ lock = h => handler_at[h] = "body"
          /\ (Suspended /\ handler_at[h] = "lock")
                => (lock = "free" \/ (lock \in Handlers \ {h} /\ handler_at[lock] = "body"))

\* C22 witness: the prover call is in flight, a handler holds the lock and another
\* one waits for it
C22_Witness ==
    /\ loop_at.op = "call"
    /\ Calls[loop_at.call] = "build_zk_proof"
    /\ lock = "h1"
    /\ handler_at["h2"] = "lock"

\* the place of a query id in the eligible rows
EligibleIndex(query_id) ==
    CHOOSE k \in 1 .. Len(eligible_queries) : eligible_queries[k].query_id = query_id

\* C26: the bundles of a task are of eligible rows and stand in the order of the
\* eligible rows, so the bundle of the disputed query id, if there is one, is the first;
\* the row of every bundle has an entry in the assignment-id map and in the signature
\* map, and the bundle carries the result hash of that entry; the signature map is the
\* one get_signatures returned, in which every record of another query id than the
\* disputed one has a hash no other hash was fetched more often than.
C26_BundlesInEligibleOrder ==
    /\ [](\A k \in 1 .. Len(proofs) :
             LET query_id == proofs[k].query.query_id
             IN /\ query_id \in SeqIds(eligible_queries)
                /\ \A j \in 1 .. k - 1 :
                      EligibleIndex(proofs[j].query.query_id) < EligibleIndex(query_id)
                /\ query_id = task.query_id => k = 1
                /\ query_id \in DOMAIN assignment_id_map
                /\ query_id \in DOMAIN signatures
                /\ proofs[k].query_result.result.data_hash = signatures[query_id].result_hash)
    /\ [][(pc = "signatures" /\ pc' = "quorum")
             => \A query_id \in DOMAIN signatures' \ {task.query_id} :
                   \A h \in Hashes :
                      last_call'.tally[h] <= last_call'.tally[signatures'[query_id].result_hash]]_vars
    /\ [][proofs # << >> => (proofs' = << >> \/ signatures' = signatures)]_vars

\* C26 witness: five bundles, the first of the disputed query with the minority hash,
\* the others with the other hash, and an eligible row in between left without a bundle
C26_Witness ==
    /\ Len(proofs) = NUMBER_OF_EVIDENCES_IN_ZK_PROOF
    /\ proofs[1].query.query_id = task.query_id
    /\ proofs[1].query_result.result.data_hash = "H2"
    /\ \A k \in 2 .. Len(proofs) : proofs[k].query_result.result.data_hash = "H1"
    /\ \E k \in 2 .. Len(proofs) :
          EligibleIndex(proofs[k].query.query_id)
            > EligibleIndex(proofs[k - 1].query.query_id) + 1
====
